---- MODULE Spec2Model ----
(***************************************************************************)
(* Model of src/src/components/AppointmentDetails.tsx: the appointment    *)
(* detail panel with its role-gated controls, token editor, status        *)
(* selector, delete action and reschedule dialog.                         *)
(*                                                                         *)
(* A 'yyyy-MM-dd' date string is modelled by its day number; a JavaScript *)
(* Date object by a number of hours of local time (24 * day + hour).      *)
(* The calls a handler makes to its collaborators are recorded, in order, *)
(* in emitted (findNextAvailableSlot with the value it returned);         *)
(* lastEvent names the event that produced the current state.             *)
(***************************************************************************)
EXTENDS Integers, Sequences, FiniteSets, TLC

VARIABLES appointment, role, isReschedulingOpen, newDate, newStartTime,
          newEndTime, insuranceToken, openDraft, emitted, lastEvent

vars == <<appointment, role, isReschedulingOpen, newDate, newStartTime,
          newEndTime, insuranceToken, openDraft, emitted, lastEvent>>

(* ------------------------------ bounds -------------------------------- *)
MaxDay == 2

Dates == 1..MaxDay

Hours == {0, 23}

Times == {"09:00", "10:00"}

TokenStrings == {"", "AUTH-123"}

(* ------------------------------ domains ------------------------------- *)
Undefined == "<undefined>"

NoUser == "<no user>"

(* An optional slot: the empty sequence, or a sequence of one slot. *)
NoSlot == <<>>

Roles == {"admin", "receptionist", "psychologist", "patient", NoUser}

PaymentMethods == {"private", "insurance"}

Statuses == {"pending", "confirmed", "cancelled", "completed", "no_show"}

Appointments ==
    [id : {"apt-1"}, psychologistId : {"psy-1"}, date : Dates,
     startTime : {"09:00"}, endTime : {"10:00"},
     paymentMethod : PaymentMethods, status : Statuses,
     insuranceToken : {Undefined, "AUTH-123"}]

Slots == [date : {24 * d + h : d \in Dates, h \in Hours},
          startTime : Times, endTime : Times]

OptionalSlots == {NoSlot} \cup {<<s>> : s \in Slots}

(* --------------------------- pure functions --------------------------- *)
format(date) == date \div 24

isAdmin == role = "admin"

isReceptionist == role = "receptionist"

isPsychologist == role = "psychologist"

canManage == isAdmin \/ isReceptionist \/ isPsychologist

canEditToken == isAdmin \/ isReceptionist \/ isPsychologist

shouldShowTokenInput_pendingOnly ==
    /\ appointment.paymentMethod = "insurance"
    /\ appointment.status = "pending"
    /\ canEditToken

shouldShowTokenInput ==
    /\ appointment.paymentMethod = "insurance"
    /\ (appointment.status = "pending" \/ appointment.status = "confirmed")
    /\ canEditToken

getStatusColor(status) ==
    CASE status = "confirmed" -> "text-green-700 bg-green-100"
      [] status = "pending"   -> "text-yellow-700 bg-yellow-100"
      [] status = "cancelled" -> "text-red-700 bg-red-100"
      [] status = "completed" -> "text-blue-700 bg-blue-100"
      [] OTHER                -> "text-gray-700 bg-gray-100"

getStatusText_swapped(status) ==
    CASE status = "confirmed" -> "Pendente"
      [] status = "pending"   -> "Confirmado"
      [] status = "cancelled" -> "Cancelado"
      [] status = "completed" -> "Concluído"
      [] OTHER                -> status

getStatusText(status) ==
    CASE status = "confirmed" -> "Confirmado"
      [] status = "pending"   -> "Pendente"
      [] status = "cancelled" -> "Cancelado"
      [] status = "completed" -> "Concluído"
      [] OTHER                -> status

StatusBadge == <<getStatusColor(appointment.status), getStatusText(appointment.status)>>

StatusOptions_withCompleted == {"pending", "confirmed", "cancelled", "completed"}

StatusOptions == {"pending", "confirmed", "cancelled"}

(* The modal dialog covers the panel: the panel's own controls take no    *)
(* input while it is open.                                                 *)
PanelInteractive == ~isReschedulingOpen

draft == <<newDate, newStartTime, newEndTime>>

(* ------------------------------- state -------------------------------- *)
Init ==
    /\ appointment \in Appointments
    /\ role \in Roles
    /\ isReschedulingOpen = FALSE
    /\ newDate = appointment.date
    /\ newStartTime = appointment.startTime
    /\ newEndTime = appointment.endTime
    /\ insuranceToken = IF appointment.insuranceToken \in {Undefined, ""}
                        THEN "" ELSE appointment.insuranceToken
    /\ openDraft = <<appointment.date, appointment.startTime, appointment.endTime>>
    /\ emitted = <<>>
    /\ lastEvent = "mount"

(* ------------------------------ handlers ------------------------------ *)
handleStatusChange(status) ==
    /\ emitted' = <<<<"updateAppointmentStatus", appointment.id, status>>>>
    /\ UNCHANGED <<appointment, role, isReschedulingOpen, newDate, newStartTime,
                   newEndTime, insuranceToken, openDraft>>

handleDelete_ignoresAnswer(confirmed) ==
    /\ emitted' = <<<<"deleteAppointment", appointment.id>>, <<"onClose">>>>
    /\ UNCHANGED <<appointment, role, isReschedulingOpen, newDate, newStartTime,
                   newEndTime, insuranceToken, openDraft>>

handleDelete(confirmed) ==
    /\ emitted' = IF confirmed
                  THEN <<<<"deleteAppointment", appointment.id>>, <<"onClose">>>>
                  ELSE <<>>
    /\ UNCHANGED <<appointment, role, isReschedulingOpen, newDate, newStartTime,
                   newEndTime, insuranceToken, openDraft>>

handleOpenReschedule(nextSlot) ==
    /\ IF Len(nextSlot) > 0
       THEN /\ newDate' = format(nextSlot[1].date)
            /\ newStartTime' = nextSlot[1].startTime
            /\ newEndTime' = nextSlot[1].endTime
       ELSE UNCHANGED <<newDate, newStartTime, newEndTime>>
    /\ isReschedulingOpen' = TRUE
    /\ openDraft' = <<newDate', newStartTime', newEndTime'>>
    /\ emitted' = <<<<"findNextAvailableSlot", appointment.psychologistId, nextSlot>>>>
    /\ UNCHANGED <<appointment, role, insuranceToken>>

handleReschedule_sendsAppointmentTimes ==
    /\ emitted' = <<<<"rescheduleAppointment", appointment.id, appointment.date,
                      appointment.startTime, appointment.endTime>>>>
    /\ isReschedulingOpen' = FALSE
    /\ UNCHANGED <<appointment, role, newDate, newStartTime, newEndTime,
                   insuranceToken, openDraft>>

handleReschedule ==
    /\ emitted' = <<<<"rescheduleAppointment", appointment.id,
                      newDate, newStartTime, newEndTime>>>>
    /\ isReschedulingOpen' = FALSE
    /\ UNCHANGED <<appointment, role, newDate, newStartTime, newEndTime,
                   insuranceToken, openDraft>>

handleSaveToken_keepsOldToken ==
    /\ emitted' = <<<<"updateAppointment", appointment>>,
                    <<"toast", "Token salvo">>>>
    /\ UNCHANGED <<appointment, role, isReschedulingOpen, newDate, newStartTime,
                   newEndTime, insuranceToken, openDraft>>

handleSaveToken ==
    /\ emitted' = <<<<"updateAppointment",
                      [appointment EXCEPT !.insuranceToken = insuranceToken]>>,
                    <<"toast", "Token salvo">>>>
    /\ UNCHANGED <<appointment, role, isReschedulingOpen, newDate, newStartTime,
                   newEndTime, insuranceToken, openDraft>>

setIsReschedulingOpen(open) ==
    /\ isReschedulingOpen' = open
    /\ emitted' = <<>>
    /\ UNCHANGED <<appointment, role, newDate, newStartTime, newEndTime,
                   insuranceToken, openDraft>>

setNewDate(value) ==
    /\ newDate' = value
    /\ emitted' = <<>>
    /\ UNCHANGED <<appointment, role, isReschedulingOpen, newStartTime,
                   newEndTime, insuranceToken, openDraft>>

setNewStartTime(value) ==
    /\ newStartTime' = value
    /\ emitted' = <<>>
    /\ UNCHANGED <<appointment, role, isReschedulingOpen, newDate,
                   newEndTime, insuranceToken, openDraft>>

setNewEndTime(value) ==
    /\ newEndTime' = value
    /\ emitted' = <<>>
    /\ UNCHANGED <<appointment, role, isReschedulingOpen, newDate,
                   newStartTime, insuranceToken, openDraft>>

setInsuranceToken_writesThrough(value) ==
    /\ insuranceToken' = value
    /\ appointment' = [appointment EXCEPT !.insuranceToken = value]
    /\ emitted' = <<>>
    /\ UNCHANGED <<role, isReschedulingOpen, newDate,
                   newStartTime, newEndTime, openDraft>>

setInsuranceToken(value) ==
    /\ insuranceToken' = value
    /\ emitted' = <<>>
    /\ UNCHANGED <<appointment, role, isReschedulingOpen, newDate,
                   newStartTime, newEndTime, openDraft>>

(* ------------------------------- events ------------------------------- *)
SelectStatus ==
    /\ canManage /\ PanelInteractive
    /\ \E status \in StatusOptions : handleStatusChange(status)
    /\ lastEvent' = "handleStatusChange"

ClickDelete ==
    /\ canManage /\ PanelInteractive
    /\ \E confirmed \in BOOLEAN :
          /\ handleDelete(confirmed)
          /\ lastEvent' = IF confirmed THEN "handleDelete:yes" ELSE "handleDelete:no"

ClickReschedule ==
    /\ canManage /\ PanelInteractive
    /\ \E nextSlot \in OptionalSlots :
          /\ handleOpenReschedule(nextSlot)
          /\ lastEvent' = IF Len(nextSlot) > 0 THEN "handleOpenReschedule:slot"
                                               ELSE "handleOpenReschedule:none"

ClickConfirmReschedule ==
    /\ isReschedulingOpen
    /\ handleReschedule
    /\ lastEvent' = "handleReschedule"

ClickCancelReschedule ==
    /\ isReschedulingOpen
    /\ setIsReschedulingOpen(FALSE)
    /\ lastEvent' = "cancel"

DismissDialog ==
    /\ isReschedulingOpen
    /\ setIsReschedulingOpen(FALSE)
    /\ lastEvent' = "dismiss"

EditNewDate ==
    /\ isReschedulingOpen
    /\ \E value \in Dates : value # newDate /\ setNewDate(value)
    /\ lastEvent' = "setNewDate"

EditNewStartTime ==
    /\ isReschedulingOpen
    /\ \E value \in Times : value # newStartTime /\ setNewStartTime(value)
    /\ lastEvent' = "setNewStartTime"

EditNewEndTime ==
    /\ isReschedulingOpen
    /\ \E value \in Times : value # newEndTime /\ setNewEndTime(value)
    /\ lastEvent' = "setNewEndTime"

EditToken ==
    /\ shouldShowTokenInput /\ PanelInteractive
    /\ \E value \in TokenStrings : value # insuranceToken /\ setInsuranceToken(value)
    /\ lastEvent' = "setInsuranceToken"

ClickSaveToken ==
    /\ shouldShowTokenInput /\ PanelInteractive
    /\ handleSaveToken
    /\ lastEvent' = "handleSaveToken"

ClickClose ==
    /\ PanelInteractive
    /\ emitted' = <<<<"onClose">>>>
    /\ lastEvent' = "onClose"
    /\ UNCHANGED <<appointment, role, isReschedulingOpen, newDate, newStartTime,
                   newEndTime, insuranceToken, openDraft>>

(* The collaborators re-render the component with a new appointment or a  *)
(* new session; useState keeps every piece of local state.                *)
AppointmentChanges ==
    /\ \E f \in {"date", "paymentMethod", "status", "insuranceToken"} :
          \E a \in Appointments :
             /\ a[f] # appointment[f]
             /\ a = [appointment EXCEPT ![f] = a[f]]
             /\ appointment' = a
    /\ emitted' = <<>>
    /\ lastEvent' = "appointment"
    /\ UNCHANGED <<role, isReschedulingOpen, newDate, newStartTime, newEndTime,
                   insuranceToken, openDraft>>

UserChanges ==
    /\ \E r \in Roles : r # role /\ role' = r
    /\ emitted' = <<>>
    /\ lastEvent' = "user"
    /\ UNCHANGED <<appointment, isReschedulingOpen, newDate, newStartTime,
                   newEndTime, insuranceToken, openDraft>>

Next ==
    \/ SelectStatus
    \/ ClickDelete
    \/ ClickReschedule
    \/ ClickCancelReschedule
    \/ DismissDialog
    \/ ClickConfirmReschedule
    \/ EditNewDate
    \/ EditNewStartTime
    \/ EditNewEndTime
    \/ EditToken
    \/ ClickSaveToken
    \/ ClickClose
    \/ AppointmentChanges
    \/ UserChanges

Spec == Init /\ [][Next]_vars

(* The component under a fixed appointment and a fixed session: only the  *)
(* user's own clicks and edits.                                            *)
NextUser ==
    \/ SelectStatus
    \/ ClickDelete
    \/ ClickReschedule
    \/ ClickCancelReschedule
    \/ DismissDialog
    \/ ClickConfirmReschedule
    \/ EditNewDate
    \/ EditNewStartTime
    \/ EditNewEndTime
    \/ EditToken
    \/ ClickSaveToken
    \/ ClickClose

SpecUser == Init /\ [][NextUser]_vars

TypeOK ==
    /\ appointment \in Appointments
    /\ role \in Roles
    /\ isReschedulingOpen \in BOOLEAN
    /\ newDate \in Dates /\ newStartTime \in Times /\ newEndTime \in Times
    /\ insuranceToken \in TokenStrings
    /\ openDraft \in Dates \X Times \X Times

(* ------------------------------ C1 ------------------------------------ *)
(* C1: right after handleOpenReschedule, if findNextAvailableSlot         *)
(* returned a slot the three draft fields equal that slot's date, start   *)
(* and end; if it returned no slot they equal the appointment's own date, *)
(* startTime and endTime.                                                  *)
AppointmentTimes == <<appointment.date, appointment.startTime, appointment.endTime>>

C1_OpenInitialisesDraft ==
    /\ lastEvent = "handleOpenReschedule:slot" =>
          draft = <<format(emitted[1][3][1].date), emitted[1][3][1].startTime,
                    emitted[1][3][1].endTime>>
    /\ lastEvent = "handleOpenReschedule:none" => draft = AppointmentTimes

(* ------------------------------ C2 ------------------------------------ *)
(* C2: cancelling or dismissing the open dialog closes it, makes no call  *)
(* to the appointment operations, and discards the draft: afterwards the  *)
(* draft holds no edit of that dialog session, that is, it is the draft   *)
(* the dialog opened with or the appointment's own date and times.        *)
C2_CancelDiscardsDraft ==
    lastEvent \in {"cancel", "dismiss"} =>
        /\ ~isReschedulingOpen
        /\ emitted = <<>>
        /\ draft \in {openDraft, AppointmentTimes}

(* ------------------------------ C3 ------------------------------------ *)
(* C3: a confirm step calls rescheduleAppointment exactly once, with the  *)
(* appointment's id and the draft date, start and end held when the       *)
(* button is pressed, makes no other call, and leaves the dialog closed;  *)
(* nothing checks start against end.                                       *)
C3_ConfirmSendsDraft ==
    [][lastEvent' = "handleReschedule" =>
          /\ emitted' = <<<<"rescheduleAppointment", appointment.id,
                            newDate, newStartTime, newEndTime>>>>
          /\ ~isReschedulingOpen']_vars

C3_Witness ==
    /\ lastEvent = "handleReschedule"
    /\ draft # openDraft
    /\ emitted[1][4] = "10:00" /\ emitted[1][5] = "09:00"
    /\ emitted[1][3] = newDate /\ ~isReschedulingOpen

(* ------------------------------ C4 ------------------------------------ *)
(* C4: shouldShowTokenInput is true exactly when the payment method is    *)
(* insurance, the status is pending or confirmed, and the role is admin,  *)
(* receptionist or psychologist; with status completed and role admin the *)
(* token editor is hidden while canManage holds.                           *)
ManagerRoles == {"admin", "receptionist", "psychologist"}

C4_TokenInputRule ==
    /\ shouldShowTokenInput <=>
          /\ appointment.paymentMethod = "insurance"
          /\ appointment.status \in {"pending", "confirmed"}
          /\ role \in ManagerRoles
    /\ (appointment.status = "completed" /\ role = "admin") =>
          (~shouldShowTokenInput /\ canManage)

C4_Witness ==
    /\ appointment.paymentMethod = "insurance"
    /\ appointment.status = "confirmed"
    /\ role = "psychologist"
    /\ shouldShowTokenInput

(* ------------------------------ C5 ------------------------------------ *)
(* C5: in every reachable state whose role is not admin, receptionist or  *)
(* psychologist (no user included) the reschedule dialog is not open and  *)
(* the state was not produced by a status-update, reschedule or delete    *)
(* request.                                                                *)
IsMutation(call) ==
    call[1] \in {"updateAppointmentStatus", "rescheduleAppointment",
                 "deleteAppointment", "updateAppointment"}

C5_NonManagersOnlyClose ==
    role \notin ManagerRoles =>
        /\ ~isReschedulingOpen
        /\ \A i \in 1..Len(emitted) : ~IsMutation(emitted[i])

(* ------------------------------ C6 ------------------------------------ *)
(* C6: a save-token step calls updateAppointment exactly once, with a     *)
(* record that has the fields of the current appointment, equal to it in  *)
(* every field but insuranceToken, which is the token draft, and then     *)
(* shows the notification exactly once; no token string is rejected.      *)
C6_SaveTokenSendsCopy ==
    [][lastEvent' = "handleSaveToken" =>
          /\ Len(emitted') = 2
          /\ emitted'[1][1] = "updateAppointment"
          /\ DOMAIN emitted'[1][2] = DOMAIN appointment
          /\ \A f \in DOMAIN appointment \ {"insuranceToken"} :
                emitted'[1][2][f] = appointment[f]
          /\ emitted'[1][2].insuranceToken = insuranceToken
          /\ emitted'[2] = <<"toast", "Token salvo">>]_vars

C6_Witness ==
    /\ lastEvent = "handleSaveToken"
    /\ appointment.insuranceToken = "AUTH-123"
    /\ emitted[1][2].insuranceToken = ""
    /\ emitted[2][1] = "toast"

(* ------------------------------ C7 ------------------------------------ *)
(* C7: a delete step answered yes calls deleteAppointment with the        *)
(* appointment's id and then onClose, once each and in that order; a      *)
(* delete step answered no makes no call and changes no component state;  *)
(* deleteAppointment is called in no other step.                          *)
LocalState == <<isReschedulingOpen, newDate, newStartTime, newEndTime, insuranceToken>>

C7_DeleteAfterConfirmation ==
    [][/\ lastEvent' = "handleDelete:yes" =>
             emitted' = <<<<"deleteAppointment", appointment.id>>, <<"onClose">>>>
       /\ lastEvent' = "handleDelete:no" =>
             (emitted' = <<>> /\ LocalState' = LocalState /\ appointment' = appointment)
       /\ (\E i \in 1..Len(emitted') : emitted'[i][1] = "deleteAppointment") =>
             lastEvent' = "handleDelete:yes"]_vars

C7_Witness ==
    /\ lastEvent = "handleDelete:yes"
    /\ emitted = <<<<"deleteAppointment", "apt-1">>, <<"onClose">>>>

(* ------------------------------ C8 ------------------------------------ *)
(* C8: every updateAppointmentStatus call carries the appointment's id    *)
(* and a status among pending, confirmed, cancelled (never completed); a  *)
(* status selection changes no local state, nor the appointment, nor the  *)
(* status badge.                                                           *)
C8_StatusRequests ==
    [][/\ \A i \in 1..Len(emitted') :
             emitted'[i][1] = "updateAppointmentStatus" =>
                 /\ emitted'[i][2] = appointment.id
                 /\ emitted'[i][3] \in {"pending", "confirmed", "cancelled"}
       /\ lastEvent' = "handleStatusChange" =>
             /\ Len(emitted') = 1 /\ emitted'[1][1] = "updateAppointmentStatus"
             /\ LocalState' = LocalState
             /\ appointment' = appointment
             /\ StatusBadge' = StatusBadge]_vars

C8_Witness ==
    /\ lastEvent = "handleStatusChange"
    /\ appointment.status = "completed"
    /\ emitted = <<<<"updateAppointmentStatus", "apt-1", "cancelled">>>>

(* ------------------------------ C9 ------------------------------------ *)
(* C9: no step of the component changes the appointment it was given      *)
(* (only the collaborator's re-render does), and editing the token draft  *)
(* or a reschedule draft field, opening the dialog and closing it without *)
(* confirming make no mutation call.                                       *)
DraftEvents ==
    {"setNewDate", "setNewStartTime", "setNewEndTime", "setInsuranceToken",
     "handleOpenReschedule:slot", "handleOpenReschedule:none", "cancel", "dismiss"}

C9_AppointmentNotMutated ==
    [][/\ lastEvent' # "appointment" => appointment' = appointment
       /\ lastEvent' \in DraftEvents =>
             \A i \in 1..Len(emitted') : ~IsMutation(emitted'[i])]_vars

C9_Witness ==
    /\ lastEvent = "setInsuranceToken"
    /\ insuranceToken = ""
    /\ appointment.insuranceToken = "AUTH-123"

(* ------------------------------ C10 ----------------------------------- *)
(* C10 as stated: pending maps to (yellow, "Pending"), confirmed to       *)
(* (green, "Confirmed"), cancelled to (red, "Cancelled"), completed to    *)
(* (blue, "Completed"), any other status to the neutral colour and the    *)
(* raw status.                                                             *)
Yellow == "text-yellow-700 bg-yellow-100"

Green == "text-green-700 bg-green-100"

Red == "text-red-700 bg-red-100"

Blue == "text-blue-700 bg-blue-100"

Neutral == "text-gray-700 bg-gray-100"

C10_BadgeEnglishLabels ==
    /\ appointment.status = "pending" => StatusBadge = <<Yellow, "Pending">>
    /\ appointment.status = "confirmed" => StatusBadge = <<Green, "Confirmed">>
    /\ appointment.status = "cancelled" => StatusBadge = <<Red, "Cancelled">>
    /\ appointment.status = "completed" => StatusBadge = <<Blue, "Completed">>
    /\ appointment.status \notin {"pending", "confirmed", "cancelled", "completed"} =>
          StatusBadge = <<Neutral, appointment.status>>

(* C10 amended: the badge of the current appointment status is            *)
(* (yellow, "Pendente") for pending, (green, "Confirmado") for confirmed, *)
(* (red, "Cancelado") for cancelled, (blue, "Concluído") for completed,   *)
(* and the neutral colour with the raw status for any other status.       *)
C10_BadgeMapping ==
    /\ appointment.status = "pending" => StatusBadge = <<Yellow, "Pendente">>
    /\ appointment.status = "confirmed" => StatusBadge = <<Green, "Confirmado">>
    /\ appointment.status = "cancelled" => StatusBadge = <<Red, "Cancelado">>
    /\ appointment.status = "completed" => StatusBadge = <<Blue, "Concluído">>
    /\ appointment.status \notin {"pending", "confirmed", "cancelled", "completed"} =>
          StatusBadge = <<Neutral, appointment.status>>

C10_Witness ==
    /\ appointment.status = "no_show"
    /\ StatusBadge = <<Neutral, "no_show">>
    /\ lastEvent = "appointment"
====
